---- MODULE Spec2Model ----
(***************************************************************************)
(* A model of niltalk's message cache (store/mongodb), of the chat-history *)
(* window resolution of handleChatHistory, of the room broadcast loop, and *)
(* of the requests that log in to, create, connect to and leave a room     *)
(* through the wrap middleware, the hub and the store of rooms, sessions.  *)
(*                                                                         *)
(* Time values are records [ms, sub, loc]: ms is the number of whole       *)
(* milliseconds since the epoch of the model, sub the part of the instant  *)
(* below one millisecond (in half milliseconds), loc the location the      *)
(* value is presented in.  A BSON date keeps ms only.                      *)
(***************************************************************************)
EXTENDS Integers, Sequences, FiniteSets, TLC

VARIABLES collection, results, err, call,          \* the message cache and its caller
          request, timeNow, status, queried, handed,    \* one chat history request

          peers, conn, peerQ, broadcastQ, dataQ, written, log, joinedAt, dropped,  \* one room

          clock, storeRooms, sessions, hubRooms, issued, reqs   \* the store of rooms and sessions, the hub, the requests

vars == <<collection, results, err, call, request, timeNow, status, queried, handed,
          peers, conn, peerQ, broadcastQ, dataQ, written, log, joinedAt, dropped,
          clock, storeRooms, sessions, hubRooms, issued, reqs>>
lobbyVars == <<clock, storeRooms, sessions, hubRooms, issued, reqs>>
histVars == <<request, timeNow, status, queried, handed>>
roomVars == <<peers, conn, peerQ, broadcastQ, dataQ, written, log, joinedAt, dropped>>

\* ---------------------------------------------------------------- bounds
MaxMs == 4          \* message and filter instants range over 1..MaxMs
MaxLimit == 2       \* limits range over 0..MaxLimit
MaxFilters == 2     \* a variadic call carries at most this many filters

Rooms == {"A", "B"}
PeerIDs == {"s1", "s2", "s3"}   \* session ids, the ids of the peers
Payloads == {"p"}
Locs == {"UTC", "Local"}

\* ------------------------------------------------------------ time.Time
ZeroTime == [ms |-> 0, sub |-> 0, loc |-> "UTC"]

IsZero(t) == t.ms = 0 /\ t.sub = 0

UTC(t) == [t EXCEPT !.loc = "UTC"]

\* the driver writes a time.Time as a BSON date: whole milliseconds
ToBSONDate(t) == t.ms

\* and reads a BSON date back as a time.Time in the local zone
FromBSONDate(d) == [ms |-> d, sub |-> 0, loc |-> "Local"]

Min(a, b) == IF a <= b THEN a ELSE b

\* ------------------------------------------------- store.Message et al.
Message(t, roomID, payload) == [Time |-> t, RoomID |-> roomID, Payload |-> payload]

DateFilter(s, e) == [Start |-> s, End |-> e]

\* the document of the message_cache collection (Time is the _id)
message(t, roomID, payload) == [id |-> ToBSONDate(t), room_id |-> roomID, payload |-> payload]

\* ---------------------------------------------------- pipeline stages
\* $match is the set of the documents that satisfy the query;
\* $sort on _id, dir = 1 ascending, dir = -1 descending, of a set of documents
RECURSIVE SortDocs(_, _)
SortDocs(docs, dir) ==
  IF docs = {} THEN <<>>
  ELSE LET d == CHOOSE x \in docs : \A y \in docs :
                  IF dir = 1 THEN x.id <= y.id ELSE x.id >= y.id
       IN  <<d>> \o SortDocs(docs \ {d}, dir)

Range(s) == {s[i] : i \in 1..Len(s)}

\* $sort applied to the stream of the previous stage
SortStage(stream, dir) == SortDocs(Range(stream), dir)

\* $limit n (n > 0)
LimitStage(stream, n) == SubSeq(stream, 1, Min(n, Len(stream)))

\* cur.Decode and the append to results
Decode(stream) ==
  [i \in 1..Len(stream) |->
     Message(UTC(FromBSONDate(stream[i].id)), stream[i].room_id, stream[i].payload)]

\* one bound of a filter as the query carries it
GteLte(f, d) ==
  /\ (~IsZero(f.Start) => d.id >= ToBSONDate(UTC(f.Start)))
  /\ (~IsZero(f.End) => d.id <= ToBSONDate(UTC(f.End)))

\* ------------------------------------------------------ AddMessageCache
\* InsertOne: _id is the primary key of the whole collection
AddMessageCacheErr(payload) ==
  IF \E d \in collection : d.id = ToBSONDate(UTC(payload.Time))
  THEN "DuplicateKey" ELSE "nil"

AddMessageCacheDocs(payload) ==
  IF AddMessageCacheErr(payload) = "nil"
  THEN collection \cup {message(UTC(payload.Time), payload.RoomID, payload.Payload)}
  ELSE collection

\* ------------------------------------ GetMessageCache (one DateFilter)
matchQuery(roomID, dateFilter, d) ==
  /\ d.room_id = roomID
  /\ (~IsZero(dateFilter.Start) \/ ~IsZero(dateFilter.End)) => GteLte(dateFilter, d)

GetMessageCache(roomID, limit, dateFilter) ==
  LET matched == SortDocs({d \in collection : matchQuery(roomID, dateFilter, d)}, -1)
      limited == IF limit > 0 THEN LimitStage(matched, limit) ELSE matched
  IN  [results |-> Decode(SortStage(limited, 1)), err |-> "nil"]

\* ------------------------------- GetMessageCache (variadic dateFilter)
\* the list of _id conditions that goes under $or: a filter with both
\* bounds zero adds none
RECURSIVE dateFilters(_)
dateFilters(dateFilter) ==
  IF dateFilter = <<>> THEN <<>>
  ELSE LET date == Head(dateFilter)
       IN  (IF ~IsZero(date.Start) \/ ~IsZero(date.End) THEN <<date>> ELSE <<>>)
             \o dateFilters(Tail(dateFilter))

\* $or of the conditions (of a non-empty list)
OrMatch(conds, d) == \E i \in 1..Len(conds) : GteLte(conds[i], d)

GetMessageCacheVariadic(roomID, limit, dateFilter) ==
  LET conds == dateFilters(dateFilter)
      matched == SortDocs({d \in collection : d.room_id = roomID /\ OrMatch(conds, d)}, -1)
      limited == IF limit > 0 THEN LimitStage(matched, limit) ELSE matched
  IN  IF conds = <<>>
      THEN [results |-> <<>>, err |-> "BadValue"]  \* $or needs a non-empty array
      ELSE [results |-> Decode(limited), err |-> "nil"]

\* ----------------------------------- GetMessageCache (limit only)
GetMessageCacheLimit(roomID, limit) ==
  LET matched == SortDocs({d \in collection : d.room_id = roomID}, -1)
  IN  IF limit <= 0
      THEN [results |-> <<>>, err |-> "BadValue"]  \* $limit must be positive
      ELSE [results |-> Decode(SortStage(LimitStage(matched, limit), 1)), err |-> "nil"]

\* ---------------------------------------------------------- the inputs
Instants == 1..MaxMs
Bounds == 0..MaxMs          \* 0 is the zero time: the bound is omitted
Limits == 0..MaxLimit

TimeOf(ms) == [ms |-> ms, sub |-> 0, loc |-> "UTC"]

Windows == {DateFilter(TimeOf(s), TimeOf(e)) : s \in Bounds, e \in Bounds}

RECURSIVE SeqsUpTo(_, _)
SeqsUpTo(S, n) ==
  IF n = 0 THEN {<<>>}
  ELSE LET shorter == SeqsUpTo(S, n - 1)
       IN  shorter \cup {Append(s, x) : s \in {t \in shorter : Len(t) = n - 1}, x \in S}

FilterLists == SeqsUpTo(Windows, MaxFilters)

NoCall == [op |-> "none", roomID |-> "", limit |-> 0, filters |-> <<>>, msg |-> <<>>]

\* ------------------------------------ rooms, sessions and their requests
MaxClock == 3       \* the clock of the store runs over 0..MaxClock
RoomAge == 2        \* cfg.RoomAge: the time to live of rooms and sessions
MaxSessions == 2    \* at most this many session ids are generated

Clients == {"c1", "c2"}
RoomIDs == {"A"}    \* the room ids of the requests

\* bcrypt.GenerateFromPassword(password, 8)
Hash(password) == [bcrypt |-> password]

\* the store holds no live record of a room: exp is the instant the record lapses
NoRecord == [ID |-> "", Password |-> Hash(""), exp |-> 0]

\* a nil *hub.Room
NilRoom == [ID |-> "", Password |-> Hash("")]

NoReq == [kind |-> "none", pc |-> "idle", roomID |-> "", password |-> "",
          ck |-> "nil", query |-> "", header |-> "", token |-> "",
          sess |-> "", room |-> NilRoom, hit |-> FALSE, status |-> "none"]

LobbyInit ==
  /\ clock = 0
  /\ storeRooms = [id \in RoomIDs |-> NoRecord]
  /\ sessions = {}
  /\ hubRooms = [id \in RoomIDs |-> NilRoom]
  /\ issued = 0
  /\ reqs = [c \in Clients |-> NoReq]

\* ------------------------------------------------------------- actions
RoomInit ==
  /\ peers = {}
  /\ conn = [p \in PeerIDs |-> "none"]
  /\ peerQ = <<>>
  /\ broadcastQ = <<>>
  /\ dataQ = [p \in PeerIDs |-> <<>>]
  /\ written = [p \in PeerIDs |-> <<>>]
  /\ log = <<>>
  /\ joinedAt = [p \in PeerIDs |-> 0]
  /\ dropped = {}

NoRequest == [room |-> "nil", From |-> "", Until |-> "", Hours |-> <<>>, TimeZone |-> ""]

Init ==
  /\ collection = {}
  /\ results = <<>>
  /\ err = "nil"
  /\ call = NoCall
  /\ request = NoRequest
  /\ timeNow = ZeroTime
  /\ status = "none"
  /\ queried = FALSE
  /\ handed = <<>>
  /\ RoomInit
  /\ LobbyInit

\* one call is served at a time: call is the call whose outcome is in
\* results and err, and Return hands the outcome to the caller
Idle == call.op = "none" /\ status = "none"

AddMessageCache ==
  /\ Idle
  /\ \E ms \in Instants, sub \in 0..1, loc \in Locs, r \in Rooms, p \in Payloads :
    LET payload == Message([ms |-> ms, sub |-> sub, loc |-> loc], r, p)
    IN  /\ collection' = AddMessageCacheDocs(payload)
        /\ err' = AddMessageCacheErr(payload)
        /\ results' = <<>>
        /\ call' = [NoCall EXCEPT !.op = "AddMessageCache", !.roomID = r, !.msg = <<payload>>]
        /\ UNCHANGED <<histVars, roomVars, lobbyVars>>

QueryOne ==
  /\ Idle
  /\ \E r \in Rooms, l \in Limits, f \in Windows :
    LET out == GetMessageCache(r, l, f)
    IN  /\ results' = out.results
        /\ err' = out.err
        /\ call' = [NoCall EXCEPT !.op = "GetMessageCache", !.roomID = r, !.limit = l,
                                  !.filters = <<f>>]
        /\ UNCHANGED <<collection, histVars, roomVars, lobbyVars>>

QueryVariadic ==
  /\ Idle
  /\ \E r \in Rooms, l \in Limits, fs \in FilterLists :
    LET out == GetMessageCacheVariadic(r, l, fs)
    IN  /\ results' = out.results
        /\ err' = out.err
        /\ call' = [NoCall EXCEPT !.op = "GetMessageCacheVariadic", !.roomID = r,
                                  !.limit = l, !.filters = fs]
        /\ UNCHANGED <<collection, histVars, roomVars, lobbyVars>>

QueryLimit ==
  /\ Idle
  /\ \E r \in Rooms, l \in Limits :
    LET out == GetMessageCacheLimit(r, l)
    IN  /\ results' = out.results
        /\ err' = out.err
        /\ call' = [NoCall EXCEPT !.op = "GetMessageCacheLimit", !.roomID = r, !.limit = l]
        /\ UNCHANGED <<collection, histVars, roomVars, lobbyVars>>

Return ==
  /\ ~Idle
  /\ results' = <<>>
  /\ err' = "nil"
  /\ call' = NoCall
  /\ request' = NoRequest
  /\ timeNow' = ZeroTime
  /\ status' = "none"
  /\ queried' = FALSE
  /\ handed' = <<>>
  /\ UNCHANGED <<collection, roomVars, lobbyVars>>

Next == AddMessageCache \/ QueryOne \/ QueryVariadic \/ QueryLimit \/ Return

Spec == Init /\ [][Next]_vars

\* ======================================================== handleChatHistory
\* Instants of this part are in milliseconds since 2022-12-31T00:00:00Z, so
\* that day n (at 00:00:00 UTC) is n * MsPerDay and day 1 is 2023-01-01.
MsPerSecond == 1000
MsPerMinute == 60 * MsPerSecond
MsPerHour == 60 * MsPerMinute
MsPerDay == 24 * MsPerHour

MaxDay == 3          \* from and until range over days 1..MaxDay
MaxHours == 2        \* the hours parameter lists at most this many ranges

\* the offset of a location from UTC (locations without daylight saving time)
Offset(loc) ==
  CASE loc = "UTC" -> 0
    [] loc = "Local" -> 7 * MsPerHour
    [] loc = "Asia/Jakarta" -> 7 * MsPerHour
    [] loc = "America/Bogota" -> 0 - 5 * MsPerHour
    [] loc = "+0000" -> 0
    [] loc = "+0700" -> 7 * MsPerHour
    [] loc = "+1400" -> 14 * MsPerHour

\* time.LoadLocation: the location, or nil for a name it does not know
LoadLocation(name) == IF name \in {"UTC", "Asia/Jakarta", "America/Bogota"} THEN name ELSE "nil"

Before(a, b) == a.ms < b.ms \/ (a.ms = b.ms /\ a.sub < b.sub)
After(a, b) == Before(b, a)
In(t, loc) == [t EXCEPT !.loc = loc]
Add(t, ms) == [t EXCEPT !.ms = @ + ms]
\* AddDate(0, 0, days): the same wall clock days later
AddDate(t, days) == [t EXCEPT !.ms = @ + days * MsPerDay]
\* Truncate(24 * time.Hour): down to a multiple of 24h of absolute time
Truncate24h(t) == [t EXCEPT !.ms = @ - (@ % MsPerDay), !.sub = 0]

\* the wall clock of t in its location
Wall(t) == t.ms + Offset(t.loc)
Day(t) == Wall(t) \div MsPerDay
Hour(t) == (Wall(t) % MsPerDay) \div MsPerHour
Minute(t) == (Wall(t) % MsPerHour) \div MsPerMinute
Second(t) == (Wall(t) % MsPerMinute) \div MsPerSecond
\* below one second, in half milliseconds
Nanosecond(t) == (Wall(t) % MsPerSecond) * 2 + t.sub

\* time.Date(year, month, day, hour, min, sec, nsec, loc)
Date(day, hour, min, sec, nsec, loc) ==
  [ms |-> day * MsPerDay + hour * MsPerHour + min * MsPerMinute + sec * MsPerSecond
            + (nsec \div 2) - Offset(loc),
   sub |-> nsec % 2, loc |-> loc]

\* ---- strings are sequences of tokens; "," and "-" are tokens of their own
\* strings.Split(s, sep)
RECURSIVE Split(_, _)
Split(s, sep) ==
  IF \A i \in 1..Len(s) : s[i] # sep THEN <<s>>
  ELSE LET k == CHOOSE i \in 1..Len(s) : s[i] = sep /\ \A j \in 1..(i - 1) : s[j] # sep
       IN  <<SubSeq(s, 1, k - 1)>> \o Split(SubSeq(s, k + 1, Len(s)), sep)

\* the clock tokens and the zone tokens a value may hold
ClockMs(tok) ==
  CASE tok = "00:00:00" -> 0
    [] tok = "08:00:00" -> 8 * MsPerHour
    [] tok = "09:00:00" -> 9 * MsPerHour
    [] tok = "23:00:00" -> 23 * MsPerHour
    [] tok = "23:59:59" -> 23 * MsPerHour + 59 * MsPerMinute + 59 * MsPerSecond

Clocks == {"00:00:00", "08:00:00", "09:00:00", "23:00:00", "23:59:59"}
Zones == {"+0000", "+0700", "+1400"}

\* the dates of the days 1, 2, ...
Dates == <<"2023-01-01", "2023-01-02", "2023-01-03", "2023-01-04", "2023-01-05", "2023-01-06">>

\* time.Parse(dateFormat, value)
ParseDate(value) ==
  IF \E n \in 1..Len(Dates) : Dates[n] = value
  THEN [ok |-> TRUE,
        t |-> [ms |-> (CHOOSE n \in 1..Len(Dates) : Dates[n] = value) * MsPerDay,
               sub |-> 0, loc |-> "UTC"]]
  ELSE [ok |-> FALSE, t |-> ZeroTime]

\* time.Parse(defaultDateFormatForRequestParam, i.Format(dateFormat) + " " + value):
\* the layout is date, clock and numeric zone offset
ParseDateTime(i, value) ==
  IF Len(value) = 3 /\ value[1] \in Clocks /\ value[2] = " " /\ value[3] \in Zones
  THEN [ok |-> TRUE,
        t |-> [ms |-> Day(i) * MsPerDay + ClockMs(value[1]) - Offset(value[3]),
               sub |-> 0, loc |-> value[3]]]
  ELSE [ok |-> FALSE, t |-> ZeroTime]

\* ---- the loop over the days and the hour ranges
Outcome(o, fs) == [outcome |-> o, filters |-> fs]

\* the filters of a step followed by the outcome of the steps after it
Then(fs, rest) == Outcome(rest.outcome, fs \o rest.filters)

\* time.Date(i.Year(), i.Month(), i.Day(), t.Hour(), t.Minute(), t.Second(),
\* t.Nanosecond(), timeLocation)
DateAt(i, t, timeLocation) ==
  Date(Day(i), Hour(t), Minute(t), Second(t), Nanosecond(t), timeLocation)

\* if !dateFilter.Start.Before(dateFilter.End): the end moves one day on
RollDayEnd(Start, End) == IF ~Before(Start, End) THEN AddDate(End, 1) ELSE End

\* the end of a day's window left where it is
ClampDayEndNever(End, now, timeLocation) == End

\* if now.Before(dateFilter.End.UTC()): the end is now
ClampDayEnd(End, now, timeLocation) ==
  IF Before(now, UTC(End)) THEN In(now, timeLocation) ELSE End

\* the window from Start, unless Start is after now
DayWindow(Start, End, now) ==
  IF After(UTC(Start), UTC(now)) THEN Outcome("break", <<>>)
  ELSE Outcome("ok", <<DateFilter(Start, End)>>)

DayBounds(Start, End, now, timeLocation) ==
  DayWindow(Start, ClampDayEnd(RollDayEnd(Start, End), now, timeLocation), now)

\* the window of day i when no hours are given
DayFilter(i, nowStart, nowEnd, now, timeLocation) ==
  DayBounds(DateAt(i, In(nowStart, timeLocation), timeLocation),
            DateAt(i, In(nowEnd, timeLocation), timeLocation), now, timeLocation)

\* the end of a range left where it is
RollHourEndNever(start, end) == end

\* if end.UTC().Before(start.UTC()): the end moves one day on
RollHourEnd(start, end) == IF Before(UTC(end), UTC(start)) THEN AddDate(end, 1) ELSE end

\* if now.Before(end): the end is now
ClampHourEnd(end, now, timeLocation) ==
  IF Before(now, end) THEN In(now, timeLocation) ELSE end

HourWindow(start, end, now, timeLocation) ==
  IF After(UTC(start), UTC(now)) THEN Outcome("break", <<>>)
  ELSE Outcome("ok", <<DateFilter(In(start, timeLocation), In(end, timeLocation))>>)

HourBounds(start, end, now, timeLocation) ==
  HourWindow(start, ClampHourEnd(RollHourEnd(start, end), now, timeLocation), now, timeLocation)

\* one range of the hours list on day i, parts being the range split at "-":
\* the start is parsed, then the end, which takes parts[2]
HourParts(i, parts, now, timeLocation) ==
  IF ~ParseDateTime(i, parts[1]).ok THEN Outcome("badRequest", <<>>)
  ELSE IF Len(parts) < 2 THEN Outcome("panic", <<>>)     \* index out of range
  ELSE IF ~ParseDateTime(i, parts[2]).ok THEN Outcome("badRequest", <<>>)
  ELSE HourBounds(ParseDateTime(i, parts[1]).t, ParseDateTime(i, parts[2]).t, now, timeLocation)

HourFilter(i, hour, now, timeLocation) == HourParts(i, Split(hour, "-"), now, timeLocation)

\* the ranges of hourArray from position k on, on day i
RECURSIVE HoursLoop(_, _, _, _, _)
HoursFrom(h, i, hourArray, k, now, timeLocation) ==
  IF h.outcome # "ok" THEN h
  ELSE Then(h.filters, HoursLoop(i, hourArray, k + 1, now, timeLocation))

HoursLoop(i, hourArray, k, now, timeLocation) ==
  IF k > Len(hourArray) THEN Outcome("ok", <<>>)
  ELSE HoursFrom(HourFilter(i, hourArray[k], now, timeLocation), i, hourArray, k, now, timeLocation)

\* the days from i to end
RECURSIVE dateLoop(_, _, _, _, _, _)
DaysFrom(d, i, end, hours, hourArray, now, timeLocation) ==
  IF d.outcome # "ok" THEN d
  ELSE Then(d.filters, dateLoop(AddDate(i, 1), end, hours, hourArray, now, timeLocation))

dateLoop(i, end, hours, hourArray, now, timeLocation) ==
  IF After(i, end) THEN Outcome("ok", <<>>)
  ELSE DaysFrom(IF Len(hourArray) <= 0 \/ hours = <<>>
                THEN DayFilter(i, Truncate24h(now),
                               Add(Truncate24h(now), 23 * MsPerHour + 59 * MsPerMinute + 59 * MsPerSecond),
                               now, timeLocation)
                ELSE HoursLoop(i, hourArray, 1, now, timeLocation),
                i, end, hours, hourArray, now, timeLocation)

\* sort.SliceStable(dateFilters, less by Start): a stable insertion
RECURSIVE InsertByStart(_, _)
InsertByStart(sorted, f) ==
  IF sorted = <<>> THEN <<f>>
  ELSE IF Before(f.Start, Head(sorted).Start) THEN <<f>> \o sorted
  ELSE <<Head(sorted)>> \o InsertByStart(Tail(sorted), f)

RECURSIVE SortSliceStable(_)
SortSliceStable(fs) ==
  IF fs = <<>> THEN <<>>
  ELSE InsertByStart(SortSliceStable(SubSeq(fs, 1, Len(fs) - 1)), fs[Len(fs)])

\* hub.GetChatHistory(roomID, dateFilters...): the query of the message cache
GetChatHistory(roomID, fs) == GetMessageCacheVariadic(roomID, 0, fs)

Response(st, q, fs, res, e) ==
  [status |-> st, queried |-> q, filters |-> fs, results |-> res, err |-> e]

BadRequest == Response("400", FALSE, <<>>, <<>>, "nil")

\* the response to the outcome of the query
Respond(sorted, chatHistory) ==
  IF chatHistory.err # "nil" THEN Response("500", TRUE, sorted, <<>>, chatHistory.err)
  ELSE Response("200", TRUE, sorted, chatHistory.results, "nil")

\* the sorted windows go to the message cache
History(roomID, sorted) == Respond(sorted, GetChatHistory(roomID, sorted))

Resolve(roomID, loop) ==
  IF loop.outcome = "badRequest" THEN BadRequest
  ELSE IF loop.outcome = "panic" THEN Response("panic", FALSE, <<>>, <<>>, "nil")
  ELSE History(roomID, SortSliceStable(loop.filters))

\* timeLocation: the location of the timezone parameter, UTC without one
TimeLocation(tz) == IF tz = "" \/ LoadLocation(tz) = "nil" THEN "UTC" ELSE LoadLocation(tz)

handleChatHistory(req, n) ==
  IF req.room = "nil" THEN BadRequest
  ELSE IF ~ParseDate(req.From).ok \/ ~ParseDate(req.Until).ok THEN BadRequest
  ELSE IF After(ParseDate(req.From).t, ParseDate(req.Until).t) THEN BadRequest
  ELSE Resolve(req.room,
               dateLoop(ParseDate(req.From).t, ParseDate(req.Until).t, req.Hours,
                        Split(req.Hours, ","), n, TimeLocation(req.TimeZone)))

\* ---- the requests
At(day, ofDay, sub) == [ms |-> day * MsPerDay + ofDay, sub |-> sub, loc |-> "Local"]

HourRanges ==
  { <<"09:00:00", " ", "+0000", "-", "08:00:00", " ", "+0000">>,
    <<"08:00:00", " ", "+0000", "-", "09:00:00", " ", "+0000">>,
    <<"00:00:00", " ", "+0000", "-", "23:59:59", " ", "+0000">>,
    <<"23:00:00", " ", "+0000", "-", "00:00:00", " ", "+1400">>,
    <<"09:00:00", "-", "08:00:00">>,
    <<"08:00:00", " ", "-", "0500", "-", "09:00:00", " ", "-", "0500">>,
    <<"08:00:00", " ", "+0000", "-", "x">>,
    <<"09:00:00", " ", "+0000">>,
    <<"x">> }

RECURSIVE Join(_, _)
Join(list, sep) ==
  IF list = <<>> THEN <<>>
  ELSE IF Len(list) = 1 THEN list[1]
  ELSE list[1] \o <<sep>> \o Join(Tail(list), sep)

HoursParams == {Join(l, ",") : l \in SeqsUpTo(HourRanges, MaxHours)}

DateParams == {Dates[n] : n \in 1..MaxDay} \cup {"yesterday"}

TimeZones == {"UTC", "Asia/Jakarta", "America/Bogota", "Mars/Phobos"}

Nows ==
  {At(d, 0, 0) : d \in 1..(MaxDay + 1)}
    \cup {At(d, 8 * MsPerHour + 30 * MsPerMinute, 0) : d \in 1..(MaxDay + 1)}
    \cup {At(d, 10 * MsPerHour, 0) : d \in 1..(MaxDay + 1)}
    \cup {At(d, MsPerDay - 500, 1) : d \in 1..(MaxDay + 1)}

Requests ==
  {[room |-> "A", From |-> f, Until |-> u, Hours |-> h, TimeZone |-> tz] :
     f \in DateParams, u \in DateParams, h \in HoursParams, tz \in TimeZones}
    \cup {[NoRequest EXCEPT !.From = Dates[1], !.Until = Dates[1]]}

\* the records the cache holds when history is asked for
HistoryDocs ==
  { message(At(1, 9 * MsPerHour + 30 * MsPerMinute, 0), "A", "p"),
    message(At(1, MsPerDay - 500, 1), "A", "p"),
    message(At(2, 8 * MsPerHour, 0), "A", "p"),
    message(At(2, 9 * MsPerHour, 0), "B", "p") }

InitHistory ==
  /\ collection = HistoryDocs
  /\ results = <<>>
  /\ err = "nil"
  /\ call = NoCall
  /\ request = NoRequest
  /\ timeNow = ZeroTime
  /\ status = "none"
  /\ queried = FALSE
  /\ handed = <<>>
  /\ RoomInit
  /\ LobbyInit

HandleChatHistory ==
  /\ Idle
  /\ \E req \in Requests, n \in Nows :
       LET out == handleChatHistory(req, n)
       IN  /\ request' = req
           /\ timeNow' = n
           /\ status' = out.status
           /\ queried' = out.queried
           /\ handed' = out.filters
           /\ results' = out.results
           /\ err' = out.err
           /\ UNCHANGED <<collection, call, roomVars, lobbyVars>>

NextHistory == HandleChatHistory \/ Return

SpecHistory == InitHistory /\ [][NextHistory]_vars

\* ================================================= the room and its peers
MaxMsgs == 3         \* the peers send at most this many messages in all
QueueCap == 1        \* the capacity of a peer's outbound queue

RoomID == "A"

Msg(p, n) == [from |-> p, n |-> n]

\* the messages read from the transports so far
Sent == Len(log) + Len(broadcastQ)

\* the fan-out of message m by the broadcast loop: every other registered peer
\* with room in its queue gets m at the tail of its queue
Recipients(m) == peers \ {m.from}
SlowPeers(m) == {p \in Recipients(m) : Len(dataQ[p]) >= QueueCap}

\* the fan-out that also hands the message back to its sender
FanoutEcho(m) ==
  [p \in PeerIDs |->
     IF p \in peers /\ Len(dataQ[p]) < QueueCap THEN Append(dataQ[p], m)
     ELSE IF p \in SlowPeers(m) THEN <<>>
     ELSE dataQ[p]]

\* the fan-out that gives up at the first full queue
FanoutStalled(m) ==
  [p \in PeerIDs |->
     IF SlowPeers(m) = {} /\ p \in Recipients(m) THEN Append(dataQ[p], m)
     ELSE IF p \in SlowPeers(m) THEN <<>>
     ELSE dataQ[p]]

Fanout(m) ==
  [p \in PeerIDs |->
     IF p \in Recipients(m) \ SlowPeers(m) THEN Append(dataQ[p], m)
     ELSE IF p \in SlowPeers(m) THEN <<>>      \* dropped with its connection
     ELSE dataQ[p]]

\* the peers whose transport is open
connected == {p \in PeerIDs : conn[p] = "open"}

\* handleWS: a request with a session is upgraded and added to the room; each
\* session connects once
HandleWS ==
  \E sessID \in PeerIDs \cup {""}, upgraded \in BOOLEAN, room \in {RoomID, "nil"} :
    /\ sessID # "" => conn[sessID] = "none"
    /\ IF sessID = "" \/ ~upgraded \/ room = "nil"
       THEN UNCHANGED <<conn, peerQ>>        \* forbidden, no upgrade, or no room
       ELSE /\ conn' = [conn EXCEPT ![sessID] = "open"]
            /\ peerQ' = Append(peerQ, [type |-> "join", id |-> sessID])   \* room.AddPeer
    /\ UNCHANGED <<peers, broadcastQ, dataQ, written, log, joinedAt, dropped>>
    /\ UNCHANGED <<collection, results, err, call, histVars, lobbyVars>>

\* the read pump of a peer forwards an inbound frame to the broadcast loop
ReadPump ==
  \E p \in connected :
    /\ Sent < MaxMsgs
    /\ broadcastQ' = Append(broadcastQ, Msg(p, Sent + 1))
    /\ UNCHANGED <<peers, conn, peerQ, dataQ, written, log, joinedAt, dropped>>
    /\ UNCHANGED <<collection, results, err, call, histVars, lobbyVars>>

\* the transport of a peer closes: its pumps end and it asks to be removed
PeerClose ==
  \E p \in connected :
    /\ conn' = [conn EXCEPT ![p] = "closed"]
    /\ peerQ' = Append(peerQ, [type |-> "leave", id |-> p])
    /\ UNCHANGED <<peers, broadcastQ, dataQ, written, log, joinedAt, dropped>>
    /\ UNCHANGED <<collection, results, err, call, histVars, lobbyVars>>

\* the broadcast loop takes a join or leave request
LoopPeerReq ==
  /\ peerQ # <<>>
  /\ LET req == Head(peerQ)
     IN  /\ peerQ' = Tail(peerQ)
         /\ IF req.type = "join" /\ req.id \in connected
            THEN /\ peers' = peers \cup {req.id}
                 /\ joinedAt' = [joinedAt EXCEPT ![req.id] = Len(log)]
            ELSE /\ peers' = peers \ {req.id}
                 /\ UNCHANGED joinedAt
         /\ dataQ' = [dataQ EXCEPT ![req.id] = <<>>]
  /\ UNCHANGED <<conn, broadcastQ, written, log, dropped>>
  /\ UNCHANGED <<collection, results, err, call, histVars, lobbyVars>>

\* the broadcast loop takes a message: it is appended to the message cache with
\* a fresh timestamp and fanned out; a peer whose queue is full is disconnected
LoopBroadcast ==
  /\ broadcastQ # <<>>
  /\ LET m == Head(broadcastQ)
     IN  /\ broadcastQ' = Tail(broadcastQ)
         /\ log' = Append(log, m)
         /\ dataQ' = Fanout(m)
         /\ peers' = peers \ SlowPeers(m)
         /\ conn' = [p \in PeerIDs |-> IF p \in SlowPeers(m) THEN "closed" ELSE conn[p]]
         /\ dropped' = dropped \cup {<<p, m.n>> : p \in SlowPeers(m)}
         /\ collection' = AddMessageCacheDocs(Message(TimeOf(Len(log) + 1), RoomID, "p"))
  /\ UNCHANGED <<peerQ, written, joinedAt>>
  /\ UNCHANGED <<results, err, call, histVars, lobbyVars>>

\* the write pump of a peer writes the head of its queue to the transport
WritePump ==
  \E p \in peers \cap connected :
    /\ dataQ[p] # <<>>
    /\ written' = [written EXCEPT ![p] = Append(@, Head(dataQ[p]))]
    /\ dataQ' = [dataQ EXCEPT ![p] = Tail(@)]
    /\ UNCHANGED <<peers, conn, peerQ, broadcastQ, log, joinedAt, dropped>>
    /\ UNCHANGED <<collection, results, err, call, histVars, lobbyVars>>

NextRoom == HandleWS \/ ReadPump \/ PeerClose \/ LoopPeerReq \/ LoopBroadcast \/ WritePump

SpecRoom == Init /\ [][NextRoom]_vars

\* ===================== the store of rooms and sessions, the hub, the requests
Passwords == {"secret", "pw"}
Names == {"", "ab", "lobby"}

\* len(req.Password), len(req.Name)
PasswordLen(password) == IF password = "secret" THEN 6 ELSE 2
NameLen(name) == IF name = "lobby" THEN 5 ELSE IF name = "ab" THEN 2 ELSE 0

\* the comparison that lets every password pass
CompareAlways(hash, password) == TRUE

\* bcrypt.CompareHashAndPassword(hash, password) = nil
CompareHashAndPassword(hash, password) == hash = Hash(password)

\* hub.GenerateGUID(32): a session id that was never generated before
SessionIDs == <<"s1", "s2", "s3", "s4">>
GenerateGUID == SessionIDs[issued + 1]
Generated == {SessionIDs[i] : i \in 1..MaxSessions}

\* ---- store.Store: a record is live until its time to live has passed
Live(id) == storeRooms[id].exp > clock

RoomOf(rec) == [ID |-> rec.ID, Password |-> rec.Password]

\* re-adding with the same key resets TTL and value
AddRoom(rooms, r, ttl) ==
  [rooms EXCEPT ![r.ID] = [ID |-> r.ID, Password |-> r.Password, exp |-> clock + ttl]]

GetRoom(id) ==
  IF Live(id) THEN [err |-> "nil", room |-> RoomOf(storeRooms[id])]
  ELSE [err |-> "ErrRoomNotFound", room |-> NilRoom]

ExtendRoomTTL(rooms, id, ttl) == [rooms EXCEPT ![id].exp = clock + ttl]

RoomExists(id) == Live(id)

RemoveRoom(rooms, id) == [rooms EXCEPT ![id] = NoRecord]

SameKey(s, sessID, roomID) == s.ID = sessID /\ s.RoomID = roomID

AddSession(sessID, handle, roomID, ttl) ==
  {s \in sessions : ~SameKey(s, sessID, roomID)}
    \cup {[ID |-> sessID, Handle |-> handle, RoomID |-> roomID, exp |-> clock + ttl]}

GetSession(sessID, roomID) ==
  IF \E s \in sessions : SameKey(s, sessID, roomID) /\ s.exp > clock
  THEN [err |-> "nil", ID |-> sessID]
  ELSE [err |-> "NotFound", ID |-> ""]

RemoveSession(sessID, roomID) == {s \in sessions : ~SameKey(s, sessID, roomID)}

ClearSessions(ss, roomID) == {s \in ss : s.RoomID # roomID}

\* ---- the hub
Activated(e, room, hit, rooms, hub) ==
  [err |-> e, room |-> room, hit |-> hit, rooms |-> rooms, hub |-> hub]

\* the room is loaded from the store and its TTL extended; a room the store has
\* no live record of is not found and leaves the registry of the hub
LoadRoom(id) ==
  IF GetRoom(id).err = "nil"
  THEN Activated("nil", GetRoom(id).room, hubRooms[id] # NilRoom,
                 ExtendRoomTTL(storeRooms, id, RoomAge),
                 [hubRooms EXCEPT ![id] = GetRoom(id).room])
  ELSE Activated("ErrRoomNotFound", NilRoom, hubRooms[id] # NilRoom,
                 storeRooms, [hubRooms EXCEPT ![id] = NilRoom])

\* the activation that trusts the copy in the registry of the hub
ActivateRoomCached(id) ==
  IF hubRooms[id] # NilRoom
  THEN Activated("nil", hubRooms[id], TRUE, storeRooms, hubRooms)
  ELSE LoadRoom(id)

\* Hub.ActivateRoom(id)
ActivateRoom(id) == LoadRoom(id)

\* Hub.AddRoom(id, name, password): a new record with TTL = room age; a live
\* room with the same id is not overwritten
HubAddRoom(id, name, password) ==
  IF RoomExists(id)
  THEN Activated("room exists", NilRoom, FALSE, storeRooms, hubRooms)
  ELSE Activated("nil", [ID |-> id, Password |-> password], FALSE,
                 AddRoom(storeRooms, [ID |-> id, Password |-> password], RoomAge),
                 [hubRooms EXCEPT ![id] = [ID |-> id, Password |-> password]])

\* ---- wrap: the middleware of the handlers
hasAuth == "hasAuth"
hasRoom == "hasRoom"

\* the options the routes wrap their handlers with
Opts(kind) ==
  CASE kind = "login" -> {hasRoom}
    [] kind = "logout" -> {hasAuth, hasRoom}
    [] kind = "ws" -> {hasAuth, hasRoom}
    [] kind = "create" -> {}
    [] kind = "history" -> {hasAuth, hasRoom}

\* the request carries a session: ck is "nil" when the request has no cookie
Carried(ck, query, header) == (ck # "nil" /\ ck # "") \/ query # "" \/ header # ""

\* the session the lookup is made with; "nil" is ck.Value of a nil cookie
SessionToken(ck, query, header) ==
  IF (ck = "nil" \/ ck = "") /\ query # "" THEN query
  ELSE IF (ck = "nil" \/ ck = "") /\ query # "" THEN header
  ELSE ck

Authed(st, token, sessID) == [status |-> st, token |-> token, sess |-> sessID]

CheckSession(token, roomID) ==
  IF token = "nil" THEN Authed("panic", "", "")        \* nil pointer dereference
  ELSE IF GetSession(token, roomID).err # "nil" THEN Authed("403", token, "")
  ELSE Authed("none", token, GetSession(token, roomID).ID)

wrapAuth(kind, roomID, ck, query, header) ==
  IF hasAuth \in Opts(kind) /\ Carried(ck, query, header)
  THEN CheckSession(SessionToken(ck, query, header), roomID)
  ELSE Authed("none", "", "")

wrapRoom(kind, roomID) ==
  IF hasRoom \in Opts(kind) THEN ActivateRoom(roomID)
  ELSE Activated("nil", NilRoom, FALSE, storeRooms, hubRooms)

\* the request after the middleware, with the session it carries (cookie,
\* parameter, header): answered by it, or handed to the handler
wrap(c, kind, roomID, cr, auth, act) ==
  IF auth.status # "none"
  THEN /\ reqs' = [reqs EXCEPT ![c] = [NoReq EXCEPT
                                         !.kind = kind, !.roomID = roomID, !.ck = cr[1],
                                         !.query = cr[2], !.header = cr[3],
                                         !.pc = "done", !.token = auth.token,
                                         !.status = auth.status]]
       /\ UNCHANGED <<storeRooms, hubRooms>>
  ELSE /\ reqs' = [reqs EXCEPT ![c] = [NoReq EXCEPT
                                         !.kind = kind, !.roomID = roomID, !.ck = cr[1],
                                         !.query = cr[2], !.header = cr[3],
                                         !.pc = "wrapped", !.token = auth.token,
                                                    !.sess = auth.sess, !.room = act.room,
                                                    !.hit = act.hit]]
       /\ storeRooms' = act.rooms
       /\ hubRooms' = act.hub

\* the carriers of a session: cookie, session_id parameter, session_id header
Carriers(kind) ==
  IF hasAuth \in Opts(kind)
  THEN ({"nil", ""} \cup Generated) \X ({""} \cup Generated) \X ({""} \cup Generated)
  ELSE {<<"nil", "", "">>}

\* a browser carries its session in the cookie that handleLogin has set
Cookies(kind) ==
  IF hasAuth \in Opts(kind)
  THEN {<<"nil", "", "">>} \cup {<<s, "", "">> : s \in Generated}
  ELSE {<<"nil", "", "">>}

RoomParams(kind) == IF kind = "create" THEN {""} ELSE RoomIDs

Kinds == {"login", "logout", "ws", "create"}

Wrap(c) ==
  /\ reqs[c].pc \in {"idle", "done"}
  /\ \E kind \in Kinds :
       \E roomID \in RoomParams(kind), cr \in Cookies(kind) :
         wrap(c, kind, roomID, cr, wrapAuth(kind, roomID, cr[1], cr[2], cr[3]),
              wrapRoom(kind, roomID))
  /\ UNCHANGED <<clock, sessions, issued>>
  /\ UNCHANGED <<collection, results, err, call, histVars, roomVars>>

\* ---- the handlers
\* what a handler leaves behind: its status, the rooms of the store, the
\* registry of the hub, the sessions of the store, the session ids generated
Reply(st, rooms, hub, ss, n) ==
  [status |-> st, rooms |-> rooms, hub |-> hub, sessions |-> ss, issued |-> n]

Unchanged(st) == Reply(st, storeRooms, hubRooms, sessions, issued)

\* the password is validated against room, then the session is registered
LoginTo(room, password, rooms, hub) ==
  IF ~CompareHashAndPassword(room.Password, password)
  THEN Reply("403", rooms, hub, sessions, issued)
  ELSE Reply("200", rooms, hub, AddSession(GenerateGUID, "h", room.ID, RoomAge), issued + 1)

\* the room that was not found is created
LoginCreated(added, password) ==
  IF added.err # "nil" THEN Unchanged("500")
  ELSE LoginTo(added.room, password, added.rooms, added.hub)

handleLogin(r, password) ==
  IF password = "malformed" THEN Unchanged("400")       \* readJSONReq fails
  ELSE IF r.room = NilRoom
  THEN LoginCreated(HubAddRoom(r.roomID, r.roomID, Hash(password)), password)
  ELSE LoginTo(r.room, password, storeRooms, hubRooms)

handleLogout(r) ==
  IF r.room = NilRoom THEN Unchanged("400")
  ELSE Reply("200", storeRooms, hubRooms, RemoveSession(r.sess, r.room.ID), issued)

\* the status "AddPeer" is room.AddPeer on the room of the request
handleWS(r, upgraded) ==
  IF r.sess = "" THEN "403"
  ELSE IF ~upgraded THEN "upgrade failed"
  ELSE IF r.room = NilRoom THEN "AddPeer on nil"
  ELSE "AddPeer"

RoomCreated(added) ==
  IF added.err # "nil" THEN Unchanged("500")
  ELSE Reply("200", added.rooms, added.hub, sessions, issued)

\* id is the id the hub generates for the room
handleCreateRoom(name, password, id) ==
  IF password = "malformed" THEN Unchanged("400")
  ELSE IF name # "" /\ (NameLen(name) < 3 \/ NameLen(name) > 100) THEN Unchanged("400")
  ELSE IF PasswordLen(password) < 6 \/ PasswordLen(password) > 100 THEN Unchanged("400")
  ELSE RoomCreated(HubAddRoom(id, name, Hash(password)))

\* Hub.Remove(roomID): the record of the room and all its sessions
HubRemove(id) ==
  Reply("200", RemoveRoom(storeRooms, id), hubRooms, ClearSessions(sessions, id), issued)

\* ---- the steps
Bodies == Passwords \cup {"malformed"}

\* the handler of request c ends with out, body being what it read
Done(c, body, out) ==
  /\ reqs' = [reqs EXCEPT ![c] = [NoReq EXCEPT !.kind = reqs[c].kind, !.pc = "done",
                                               !.roomID = reqs[c].roomID, !.password = body,
                                               !.status = out.status]]
  /\ storeRooms' = out.rooms
  /\ hubRooms' = out.hub
  /\ sessions' = out.sessions
  /\ issued' = out.issued
  /\ UNCHANGED clock
  /\ UNCHANGED <<collection, results, err, call, histVars, roomVars>>

Wrapped(c, kind) == reqs[c].pc = "wrapped" /\ reqs[c].kind = kind

Login(c) ==
  /\ Wrapped(c, "login")
  /\ issued < MaxSessions
  /\ \E body \in Bodies : Done(c, body, handleLogin(reqs[c], body))

Logout(c) ==
  /\ Wrapped(c, "logout")
  /\ Done(c, "", handleLogout(reqs[c]))

Connect(c) ==
  /\ Wrapped(c, "ws")
  /\ \E upgraded \in BOOLEAN : Done(c, "", Unchanged(handleWS(reqs[c], upgraded)))

CreateRoom(c) ==
  /\ Wrapped(c, "create")
  /\ \E name \in Names, body \in Bodies, id \in {i \in RoomIDs : ~Live(i)} :
       Done(c, body, handleCreateRoom(name, body, id))

\* the hub removes a room
Remove(c) ==
  /\ reqs[c].pc \in {"idle", "done"}
  /\ \E id \in RoomIDs :
       /\ reqs' = [reqs EXCEPT ![c] = [NoReq EXCEPT !.kind = "remove", !.pc = "done",
                                                    !.roomID = id, !.status = "200"]]
       /\ storeRooms' = HubRemove(id).rooms
       /\ sessions' = HubRemove(id).sessions
  /\ UNCHANGED <<clock, hubRooms, issued>>
  /\ UNCHANGED <<collection, results, err, call, histVars, roomVars>>

\* time passes: the store drops the records whose time to live has passed
Tick ==
  /\ clock < MaxClock
  /\ clock' = clock + 1
  /\ storeRooms' = [id \in RoomIDs |->
                      IF storeRooms[id].exp > clock + 1 THEN storeRooms[id] ELSE NoRecord]
  /\ sessions' = {s \in sessions : s.exp > clock + 1}
  /\ UNCHANGED <<hubRooms, issued, reqs>>
  /\ UNCHANGED <<collection, results, err, call, histVars, roomVars>>

NextLobby ==
  \/ Tick
  \/ \E c \in Clients :
       Wrap(c) \/ Login(c) \/ Logout(c) \/ Connect(c) \/ CreateRoom(c) \/ Remove(c)

SpecLobby == Init /\ [][NextLobby]_vars

\* ---------------------------------- every carrier, and the history of a room
\* a request with any combination of cookie, parameter and header
WrapCarrying(c) ==
  /\ reqs[c].pc \in {"idle", "done"}
  /\ \E kind \in Kinds \cup {"history"} :
       \E roomID \in RoomParams(kind), cr \in Carriers(kind) :
         wrap(c, kind, roomID, cr, wrapAuth(kind, roomID, cr[1], cr[2], cr[3]),
              wrapRoom(kind, roomID))
  /\ UNCHANGED <<clock, sessions, issued>>
  /\ UNCHANGED <<collection, results, err, call, histVars, roomVars>>

\* the handler of the history of a room, behind wrap: it is asked for the
\* first day, or the first two, on the day after the last
ChatHistory(c) ==
  /\ Wrapped(c, "history")
  /\ \E u \in {Dates[1], Dates[2]}, n \in {At(MaxDay + 1, 0, 0)} :
       /\ request' = [NoRequest EXCEPT
                        !.room = IF reqs[c].room = NilRoom THEN "nil" ELSE reqs[c].room.ID,
                        !.From = Dates[1], !.Until = u]
       /\ timeNow' = n
       /\ status' = handleChatHistory(request', n).status
       /\ queried' = handleChatHistory(request', n).queried
       /\ handed' = handleChatHistory(request', n).filters
       /\ results' = handleChatHistory(request', n).results
       /\ err' = handleChatHistory(request', n).err
       /\ reqs' = [reqs EXCEPT ![c] = [NoReq EXCEPT !.kind = "history", !.pc = "done",
                                                    !.roomID = reqs[c].roomID,
                                                    !.status = status']]
  /\ UNCHANGED <<collection, call, roomVars>>
  /\ UNCHANGED <<clock, storeRooms, sessions, hubRooms, issued>>

NextAccess ==
  \/ Tick
  \/ \E c \in {"c1"} :
       \/ WrapCarrying(c) \/ Login(c) \/ Logout(c) \/ Connect(c)
       \/ CreateRoom(c) \/ Remove(c) \/ ChatHistory(c)

SpecAccess == InitHistory /\ [][NextAccess]_vars

\* ------------------------------------------------ what the claims speak of
QueryOps == {"GetMessageCache", "GetMessageCacheVariadic", "GetMessageCacheLimit"}

\* the records of a room, as a caller receives them
RecordsOf(docs) == {Message([ms |-> d.id, sub |-> 0, loc |-> "UTC"], d.room_id, d.payload) : d \in docs}

RoomDocs(r) == {d \in collection : d.room_id = r}

\* a window with an omitted bound is unbounded on that side, both bounds inclusive
InWindow(d, f) ==
  /\ (f.Start.ms = 0 \/ f.Start.ms <= d.id)
  /\ (f.End.ms = 0 \/ d.id <= f.End.ms)

InAnyWindow(d, fs) == \E i \in 1..Len(fs) : InWindow(d, fs[i])

\* the documents a query is to match: the room's, inside any window when
\* windows are given
Matching(r, fs) == {d \in RoomDocs(r) : fs = <<>> \/ InAnyWindow(d, fs)}

Ascending(res) == \A i, j \in 1..Len(res) : i < j => res[i].Time.ms < res[j].Time.ms

\* res holds exactly the records of docs, each once
ExactlyOnce(res, docs) == Range(res) = RecordsOf(docs) /\ Len(res) = Cardinality(docs)

\* the k documents of docs with the largest timestamps
MostRecent(docs, k) == {d \in docs : Cardinality({e \in docs : e.id > d.id}) < k}

Bounded(f) == f.Start.ms # 0 /\ f.End.ms # 0

NoDateFilter ==
  \/ call.op = "GetMessageCache" /\ call.filters = <<DateFilter(ZeroTime, ZeroTime)>>
  \/ call.op = "GetMessageCacheVariadic" /\ call.filters = <<>>

\* C1: a query of a room with limit 0 and no date filter succeeds and returns
\* exactly the records of that room, each once, in ascending timestamp order.
C1_AllOfRoomAscending ==
  (call.limit = 0 /\ NoDateFilter) =>
     /\ err = "nil"
     /\ ExactlyOnce(results, RoomDocs(call.roomID))
     /\ Ascending(results)

\* C2: a query with limit > 0 returns exactly the min(limit, n) most recent of the
\* n matching records, in ascending timestamp order; limit 0 truncates nothing.
\* (Stated for the calls that succeeded and whose windows have at least one bound.)
C2_MostRecentAscending ==
  (/\ call.op \in QueryOps
   /\ err = "nil"
   /\ \A i \in 1..Len(call.filters) : ~IsZero(call.filters[i].Start) \/ ~IsZero(call.filters[i].End)) =>
     LET m == Matching(call.roomID, call.filters)
     IN  /\ ExactlyOnce(results, IF call.limit > 0 THEN MostRecent(m, call.limit) ELSE m)
         /\ Ascending(results)

TwoDisjointWindows ==
  /\ call.op = "GetMessageCacheVariadic"
  /\ call.limit = 0
  /\ Len(call.filters) = 2
  /\ \A i \in 1..2 : Bounded(call.filters[i]) /\ call.filters[i].Start.ms <= call.filters[i].End.ms
  /\ \/ call.filters[1].End.ms < call.filters[2].Start.ms
     \/ call.filters[2].End.ms < call.filters[1].Start.ms

\* C3: a query with two non-overlapping windows returns exactly the room's records
\* whose timestamp lies in either window (bounds inclusive), as one ascending sequence.
C3_TwoWindowsMergedAscending ==
  TwoDisjointWindows =>
     /\ err = "nil"
     /\ ExactlyOnce(results, {d \in RoomDocs(call.roomID) :
            \E i \in 1..2 : call.filters[i].Start.ms <= d.id /\ d.id <= call.filters[i].End.ms})
     /\ Ascending(results)

\* C4: a record matches when it lies inside any of the windows, an omitted bound
\* meaning unbounded on that side; a list holding a window without bounds returns
\* every record of the room.
C4_AnyWindowOmittedUnbounded ==
  (call.op \in {"GetMessageCache", "GetMessageCacheVariadic"} /\ call.limit = 0
     /\ call.filters # <<>>) =>
     /\ err = "nil"
     /\ Range(results) = RecordsOf({d \in RoomDocs(call.roomID) : InAnyWindow(d, call.filters)})

\* ---- the chat history windows
Answered == status # "none"

NotAfter(a, b) == ~Before(b, a)

\* C5: every DateFilter handed to the message cache satisfies Start <= End <= now.
C5_WindowsOrderedAndPast ==
  queried => \A k \in 1..Len(handed) :
     NotAfter(handed[k].Start, handed[k].End) /\ NotAfter(handed[k].End, timeNow)

ThreeDaysFromSecondMorning ==
  /\ Answered
  /\ request.room = "A"
  /\ request.From = "2023-01-01" /\ request.Until = "2023-01-03"
  /\ request.Hours = <<>> /\ request.TimeZone = "UTC"
  /\ timeNow = At(2, 10 * MsPerHour, 0)

\* C6 as stated: the request from 2023-01-01 until 2023-01-03 without hours, in UTC,
\* at 2023-01-02T10:00:00Z, produces three windows.
C6_ThreeWindows == ThreeDaysFromSecondMorning => Len(handed) = 3

Span(f) == <<f.Start.ms, f.Start.sub, f.End.ms, f.End.sub>>

\* C6 as amended: that request produces two windows, day 1 from 00:00:00 to
\* 23:59:59 and day 2 from 00:00:00 to 10:00:00, and none for day 3.
C6_TwoWindows ==
  ThreeDaysFromSecondMorning =>
     /\ queried
     /\ Len(handed) = 2
     /\ Span(handed[1]) = <<1 * MsPerDay, 0, 1 * MsPerDay + 23 * MsPerHour + 59 * MsPerMinute + 59 * MsPerSecond, 0>>
     /\ Span(handed[2]) = <<2 * MsPerDay, 0, 2 * MsPerDay + 10 * MsPerHour, 0>>

C6_Witness == ThreeDaysFromSecondMorning /\ queried /\ Len(handed) = 2

\* a request for the single day d that lies in the past: now is not before the
\* 08:00:00 UTC that follows d
PastDay(d) ==
  /\ Answered
  /\ request.room = "A"
  /\ request.From = Dates[d] /\ request.Until = Dates[d]
  /\ timeNow.ms >= (d + 1) * MsPerDay + 8 * MsPerHour

\* one window from 09:00:00 on day d to 08:00:00 on day d + 1, read at offset off
OvernightWindow(d, off) ==
  /\ queried
  /\ Len(handed) = 1
  /\ Span(handed[1]) = <<d * MsPerDay + 9 * MsPerHour - off, 0,
                         (d + 1) * MsPerDay + 8 * MsPerHour - off, 0>>

Malformed(hour) ==
  LET parts == Split(hour, "-")
  IN  \/ Len(parts) < 2
      \/ ~ParseDateTime(At(1, 0, 0), parts[1]).ok
      \/ ~ParseDateTime(At(1, 0, 0), parts[2]).ok

HasMalformedRange ==
  /\ request.Hours # <<>>
  /\ \E k \in 1..Len(Split(request.Hours, ",")) : Malformed(Split(request.Hours, ",")[k])

\* C8: a request whose hours list holds a malformed range ends with a validation
\* error and the message cache is not queried.
C8_MalformedHoursRejected ==
  (Answered /\ HasMalformedRange) => (status = "400" /\ ~queried)

\* ---- the room
\* what a peer has been handed so far: written to its transport or queued for it
Observed(p) == written[p] \o dataQ[p]

NotOwn(p, s) == SelectSeq(s, LAMBDA m : m.from # p)

C10_SlowPeerDroppedOthersServed ==
  [][ (broadcastQ # <<>> /\ log' = Append(log, Head(broadcastQ))) =>
        \A p \in peers \ {Head(broadcastQ).from} :
           IF Len(dataQ[p]) >= QueueCap
           THEN p \notin peers' /\ conn'[p] = "closed"
           ELSE p \in peers' /\ dataQ'[p] = Append(dataQ[p], Head(broadcastQ)) ]_vars

\* a slow peer was dropped by message n, and a remaining peer has been handed
\* message n and the next one
C10_Witness ==
  \E d \in dropped, q \in peers :
     \E i, j \in 1..Len(Observed(q)) : Observed(q)[i].n = d[2] /\ Observed(q)[j].n = d[2] + 1

\* ---- rooms and sessions
\* request c passes the middleware in this step, which activates its room
Activates(c) ==
  /\ reqs[c].pc # "wrapped"
  /\ reqs'[c].pc = "wrapped"
  /\ hasRoom \in Opts(reqs'[c].kind)

\* the handler of request c, of the given kind, runs in this step
Handles(c, kind) == Wrapped(c, kind) /\ reqs'[c].pc = "done"

\* the hub removes room id in this step
Removes(c, id) ==
  /\ reqs'[c] # reqs[c]
  /\ reqs'[c].kind = "remove"
  /\ reqs'[c].roomID = id

LiveAfter(id) == storeRooms'[id].exp > clock'

\* C11: after the removal of a room the store has no live record of it, only a
\* login or a create request brings a record to life, and an activation of a
\* room the store has no live record of returns not found (the request gets no
\* room), whether or not the hub held a copy of the room
C11_RemovedRoomNotFound ==
  [][ /\ \A c \in Clients, id \in RoomIDs : Removes(c, id) => ~LiveAfter(id)
      /\ \A id \in RoomIDs :
           ~Live(id) /\ LiveAfter(id)
             => \E c \in Clients : Handles(c, "login") \/ Handles(c, "create")
      /\ \A c \in Clients :
           Activates(c) /\ ~Live(reqs'[c].roomID) => reqs'[c].room = NilRoom ]_vars

\* a room was removed, and a request for it that found a copy in the hub passed
\* the middleware without a room
C11_Witness ==
  \E c \in Clients, d \in Clients :
    /\ reqs[c].kind = "remove" /\ reqs[c].pc = "done"
    /\ reqs[d].pc = "wrapped" /\ reqs[d].roomID = reqs[c].roomID
    /\ hasRoom \in Opts(reqs[d].kind)
    /\ reqs[d].hit
    /\ reqs[d].room = NilRoom
    /\ ~Live(reqs[d].roomID)

\* C12: a login replaces the password hash of no live room, and when it issues
\* a session for a room the store has a live record of, the password it
\* verified is the one whose hash the room holds
C12_LiveRoomNeverOverwritten ==
  [][ \A c \in Clients :
        Handles(c, "login")
          => /\ \A id \in RoomIDs :
                  Live(id) => storeRooms'[id].Password = storeRooms[id].Password
             /\ reqs'[c].status = "200" /\ LiveAfter(reqs[c].roomID)
                  => storeRooms'[reqs[c].roomID].Password = Hash(reqs'[c].password) ]_vars

\* C13: a record of a room comes to life only in the handler of a create
\* request, and a login for a room the store has no live record of ends with a
\* failure status and leaves the rooms and the sessions of the store as they were
C13_LoginNeverCreatesRoom ==
  [][ /\ \A id \in RoomIDs :
           ~Live(id) /\ LiveAfter(id) => \E c \in Clients : Handles(c, "create")
      /\ \A c \in Clients :
           Handles(c, "login") /\ reqs[c].room = NilRoom /\ ~Live(reqs[c].roomID)
             => /\ reqs'[c].status \in {"400", "403", "404"}
                /\ storeRooms' = storeRooms
                /\ sessions' = sessions ]_vars

\* C14: every session GetSession accepts belongs to a room the store has a live
\* record of
C14_NoSessionOutlivesRoom ==
  \A s \in sessions : GetSession(s.ID, s.RoomID).err = "nil" => Live(s.RoomID)

\* C15: the handler of a connection request calls room.AddPeer only on a room
\* the activation returned, and a request with a session whose activation
\* failed is rejected (or its upgrade fails)
C15_AddPeerOnlyOnActivatedRoom ==
  [][ \A c \in Clients :
        Handles(c, "ws")
          => /\ reqs'[c].status \in {"AddPeer", "AddPeer on nil"} => reqs[c].room # NilRoom
             /\ reqs[c].sess # "" /\ reqs[c].room = NilRoom
                  => reqs'[c].status \in {"403", "404", "upgrade failed"} ]_vars

\* ---- the windows of a history request
\* some instant lies in both windows
Overlap(f, g) ==
  /\ NotAfter(f.Start, f.End) /\ NotAfter(g.Start, g.End)
  /\ NotAfter(f.Start, g.End) /\ NotAfter(g.Start, f.End)

\* C16: the windows handed to the message cache are pairwise disjoint
C16_WindowsDisjoint ==
  queried => \A i \in 1..Len(handed), j \in 1..Len(handed) :
                i < j => ~Overlap(handed[i], handed[j])

\* the days of the request, and the ranges of its hours list
RequestDays ==
  {n \in 1..Len(Dates) : /\ ParseDate(request.From).ok /\ ParseDate(request.Until).ok
                         /\ ~Before(ParseDate(Dates[n]).t, ParseDate(request.From).t)
                         /\ ~After(ParseDate(Dates[n]).t, ParseDate(request.Until).t)}

RequestRanges == IF request.Hours = <<>> THEN <<>> ELSE Split(request.Hours, ",")

\* the start of range k on day n, when it parses
RangeStart(n, k) == ParseDateTime(ParseDate(Dates[n]).t, Split(RequestRanges[k], "-")[1])

\* some window handed to the message cache starts at instant t
HandedFrom(t) ==
  \E w \in 1..Len(handed) : ~Before(handed[w].Start, t) /\ ~After(handed[w].Start, t)

\* C17: nothing valid is lost: every range of every day of the request whose
\* start is not after now has its window among those handed to the message cache
C17_AbortLosesNothing ==
  queried /\ request.Hours # <<>>
    => \A n \in RequestDays, k \in 1..Len(RequestRanges) :
         RangeStart(n, k).ok /\ ~After(RangeStart(n, k).t, timeNow)
           => HandedFrom(RangeStart(n, k).t)

\* 00:00:00 and 23:59:59 of day n read in location loc
Midnight(n, loc) == [ms |-> n * MsPerDay - Offset(loc), sub |-> 0, loc |-> loc]
LastSecond(n, loc) == Add(Midnight(n, loc), 23 * MsPerHour + 59 * MsPerMinute + 59 * MsPerSecond)

\* some window handed to the message cache covers day n in location loc: it
\* starts at 00:00:00 of the day and ends no later than its 23:59:59
CoversDay(n, loc) ==
  \E w \in 1..Len(handed) :
    /\ ~Before(handed[w].Start, Midnight(n, loc)) /\ ~After(handed[w].Start, Midnight(n, loc))
    /\ NotAfter(handed[w].End, LastSecond(n, loc))

\* C18: with no hours, every requested day that has begun in the timezone of
\* the request has a window that covers that calendar day in that timezone
C18_DayWindowInTimezone ==
  queried /\ request.Hours = <<>>
    => \A n \in RequestDays :
         NotAfter(Midnight(n, TimeLocation(request.TimeZone)), timeNow)
           => CoversDay(n, TimeLocation(request.TimeZone))

\* the hash the handler of login request c validates the password against: the
\* hash of the room wrap found or, without one, of the room the handler made
HashValidated(c) ==
  IF reqs[c].room # NilRoom THEN reqs[c].room.Password
  ELSE storeRooms'[reqs[c].roomID].Password

\* C19: a login adds a session only when its password verifies against the
\* hash of the room, and a login with an incorrect password for an existing room
\* is answered 403 and leaves the rooms and the sessions of the store unchanged
C19_SessionOnlyAfterPassword ==
  [][ \A c \in Clients :
        Handles(c, "login")
          => /\ sessions' # sessions \/ reqs'[c].status = "200"
                  => HashValidated(c) = Hash(reqs'[c].password)
             /\ (/\ reqs[c].room # NilRoom
                 /\ reqs'[c].password \in Passwords
                 /\ reqs[c].room.Password # Hash(reqs'[c].password))
                  => /\ reqs'[c].status = "403"
                     /\ storeRooms' = storeRooms
                     /\ sessions' = sessions ]_vars

\* a login with an incorrect password for a live room was answered 403, and the
\* store holds a session of an earlier login
C19_Witness ==
  \E c \in Clients :
    /\ reqs[c].kind = "login" /\ reqs[c].pc = "done" /\ reqs[c].status = "403"
    /\ reqs[c].password \in Passwords
    /\ Live(reqs[c].roomID)
    /\ storeRooms[reqs[c].roomID].Password # Hash(reqs[c].password)
    /\ \E s \in sessions : s.RoomID = reqs[c].roomID

\* ---- the message caches of the rooms
\* AddMessageCache is called with payload in this step
Adds(payload) ==
  /\ call.op = "none"
  /\ call'.op = "AddMessageCache"
  /\ call'.msg = <<payload>>

\* the room of payload already holds a record with the timestamp of payload
HeldByRoom(payload) ==
  \E d \in collection : d.id = ToBSONDate(UTC(payload.Time)) /\ d.room_id = payload.RoomID

AllMessages ==
  {Message([ms |-> ms, sub |-> sub, loc |-> loc], r, p) :
     ms \in Instants, sub \in 0..1, loc \in Locs, r \in Rooms, p \in Payloads}

\* C20: AddMessageCache changes and removes no stored record, and unless the
\* room of the message itself holds a record with the same timestamp it succeeds
\* and the record is stored, whatever the other rooms hold
C20_RoomCachesIndependent ==
  [][ \A payload \in AllMessages :
        Adds(payload)
          => /\ collection \subseteq collection'
             /\ ~HeldByRoom(payload)
                  => /\ err' = "nil"
                     /\ message(UTC(payload.Time), payload.RoomID, payload.Payload)
                          \in collection' ]_vars

\* a request without hours for several days that all lie in the past: now is at
\* least a day after the end of the last of them, and each has its window
SeveralPastDays ==
  /\ queried
  /\ request.Hours = <<>>
  /\ Cardinality(RequestDays) >= 2
  /\ Len(handed) = Cardinality(RequestDays)
  /\ \A n \in RequestDays : timeNow.ms >= (n + 2) * MsPerDay

\* the record is among those returned
Returned(d) == \E i \in 1..Len(results) : ToBSONDate(results[i].Time) = d.id

\* C21: the windows of several past days leave no gap: each window starts no
\* later than the one before it ends, and every record of the room between the
\* start of the first window and the end of the last is returned
C21_NoGapBetweenDays ==
  SeveralPastDays
    => /\ \A k \in 1..(Len(handed) - 1) : NotAfter(handed[k + 1].Start, handed[k].End)
       /\ \A d \in RoomDocs(request.room) :
            /\ ToBSONDate(UTC(handed[1].Start)) <= d.id
            /\ d.id <= ToBSONDate(UTC(handed[Len(handed)].End))
              => Returned(d)

\* the carrier a request is authenticated by: the cookie, else the
\* session_id parameter, else the session_id header
Supplied(r) ==
  IF r.ck \notin {"nil", ""} THEN r.ck
  ELSE IF r.query # "" THEN r.query
  ELSE r.header

\* wrap runs on a request of c that asks for a session and carries one
ChecksSession(c) ==
  /\ reqs[c].pc \in {"idle", "done"}
  /\ reqs'[c] # reqs[c]
  /\ reqs'[c].kind \in Kinds \cup {"history"}
  /\ hasAuth \in Opts(reqs'[c].kind)
  /\ Carried(reqs'[c].ck, reqs'[c].query, reqs'[c].header)

\* the request of c carries its session in the session_id header alone
HeaderOnly(c) ==
  /\ reqs'[c].ck \in {"nil", ""}
  /\ reqs'[c].query = ""
  /\ reqs'[c].header # ""

\* C22: whenever at least one of cookie, session_id parameter and session_id
\* header is non-empty, wrap looks the session up with a non-empty token taken
\* from the carriers (cookie, else parameter, else header) and the request ends
\* with the handler's response or a forbidden error; a request that carries the
\* token in the header alone is authenticated with that token.
C22_SessionFromAnyCarrier ==
  [][\A c \in Clients :
       ChecksSession(c)
         => /\ reqs'[c].token # ""
            /\ reqs'[c].token = Supplied(reqs'[c])
            /\ reqs'[c].pc = "wrapped" \/ reqs'[c].status = "403"
            /\ (HeaderOnly(c) /\ GetSession(reqs'[c].header, reqs'[c].roomID).err = "nil")
                 => /\ reqs'[c].pc = "wrapped"
                    /\ reqs'[c].sess = reqs'[c].header]_vars

\* C23: the history of a room is returned only to a request with a valid
\* session for the room: a request without a session token, or with an empty
\* session, never receives the records of handleChatHistory.
C23_HistoryOnlyWithSession ==
  [][\A c \in Clients :
       (Handles(c, "history") /\ reqs[c].sess = "")
         => /\ results' = <<>>
            /\ reqs'[c].status # "200"]_vars

====
